---------------------------- MODULE Spec2Model ----------------------------
(***************************************************************************)
(* Model of one recording session of owa.ocap.recorder.record():           *)
(* setup_resources() starts the producers, _run_recording_loop() is the    *)
(* single consumer of RecordingContext.event_queue, and the context        *)
(* managers and the finally clause of record() perform the shutdown.       *)
(*                                                                         *)
(* Time is counted in ticks.  The only place where the main thread lets    *)
(* time pass is the blocking event_queue.get(timeout=0.1); every other     *)
(* statement of the loop is taken to be instantaneous.  The join timeout   *)
(* of the teardown is abstracted to a choice between "the thread ended"    *)
(* and "the timeout elapsed".                                              *)
(*                                                                         *)
(* The pipeline-backed recorder is modelled on its own: the thread that    *)
(* runs BaseGstPipelineRunner.loop(), a caller of stop() and cleanup(),    *)
(* the GStreamer pipeline with its bus, and the path of one frame through  *)
(* get_frame_time_ns and the buffer probe of AppsinkRecorder.              *)
(***************************************************************************)
EXTENDS Integers, Sequences, FiniteSets, Bags, TLC

\* ------------------------------------------------------------------ bounds
NumResources == 2      \* producers in the resources list (index = declaration order)
MaxEvents == 1         \* events the producers deliver in one session (Spec)
MaxTime == 6           \* last tick of the clock (Spec)
QueueEvents == 2       \* events the producers deliver in one session (SpecQueue)
StopAfter == 3         \* the positive value of stop_after that is tried, in ticks
HealthInterval == 3    \* the positive value of health_check_interval that is tried
MaxStops == 2          \* calls of stop() on the pipeline runner
MaxCleanups == 1       \* calls of cleanup() after loop() is through
MaxErrors == 1         \* ERROR messages the pipeline posts by itself
MaxOthers == 1         \* messages of any other kind the pipeline posts
MaxFrames == 2         \* buffers that pass through the pipeline
MaxHealthCalls == 2    \* calls of check_resources_health on one list (SpecHealth)

\* ------------------------------------------------------- program constants
DequeueTimeout == 2    \* event_queue.get(timeout=0.1), in ticks of 50 ms
\* Gst.CLOCK_TIME_NONE, the largest clock value; the model's clock values
\* are 31 bits wide where GstClockTime has 64
CLOCK_TIME_NONE == 2147483647

Resources == 1..NumResources
NoTime == 0 - 1

VARIABLES
  pc,                    \* position of the main thread inside record()
  idx,                   \* loop index of the start loop / the teardown loop
  raised,                \* exception propagating out of record(): "none", "start", "writer"
  pstate,                \* per producer: "new", "running" (is_alive() is True), "dead"
  ppc,                   \* per producer thread: "idle" or "stamped" (inside enqueue_event)
  held,                  \* per producer thread: the tuple enqueue_event has built
  nextId,                \* number of events delivered to callbacks so far
  queue,                 \* RecordingContext.event_queue
  item,                  \* the (topic, event, publish_time) the loop is processing
  written,               \* calls of writer.write_message, in order
  enq,                   \* history: entries in the order their put completed
  deq,                   \* history: entries in the order get returned them
  now,                   \* the clock
  recording_start_time,
  last_health_check,
  deadline,              \* instant at which the pending get(timeout) gives up
  stop_after,            \* input; 0 stands for None
  health_check_interval, \* input; 0 disables the health check
  interrupted,           \* a KeyboardInterrupt was delivered inside the loop
  exitCause,             \* which statement ended the loop
  firstDeath,            \* instant at which the first producer died while the loop ran
  tdFail,                \* per producer: what was logged as error in the teardown
  log,                   \* calls made on the collaborators, in order
  pid_file               \* the process-id file exists

sessionVars == <<pc, idx, raised, pstate, ppc, held, nextId, queue, item,
                 written, enq, deq, now, recording_start_time,
                 last_health_check, deadline, stop_after,
                 health_check_interval, interrupted, exitCause, firstDeath,
                 tdFail, log, pid_file>>

VARIABLES
  rpc,                   \* position of the runner thread inside loop()
  stop_pc,               \* position of the caller inside stop()
  is_cleaned_up,         \* self._is_cleaned_up
  pipeline_state,        \* state of self.pipeline: "NULL", "ASYNC", "PLAYING", "FAILED"
  main_loop_running,     \* the is_running flag of self.main_loop
  bus,                   \* messages posted on the pipeline's bus and not yet popped
  eos,                   \* the end-of-stream event: "none", "pending", "posted"
  posted,                \* how many ERROR / other messages the pipeline has posted
  ops,                   \* calls made on self.pipeline and self.main_loop, in order
  stops,                 \* calls of stop() that have returned
  cleanup_calls,         \* calls of cleanup() made after loop() was through
  exit_path,             \* how _loop() ended
  loop_raised            \* _loop() ended by raising; loop() re-raises after cleanup

runnerVars == <<rpc, stop_pc, is_cleaned_up, pipeline_state, main_loop_running,
                bus, eos, posted, ops, stops, cleanup_calls, exit_path,
                loop_raised>>

VARIABLES
  fpc,                   \* position of the streaming thread in the frame callbacks
  sample,                \* the buffer's pts and the clock readings of this frame
  wall,                  \* what time.time_ns() returns for this frame
  metadata,              \* what get_frame_time_ns returned for this frame
  probe,                 \* locals of buffer_probe_callback: frame_time_ns, latency
  screen_captured,       \* the ScreenCaptured the probe built
  handed,                \* events handed to context.enqueue_event, in order
  frames                 \* buffers that have passed so far

frameVars == <<fpc, sample, wall, metadata, probe, screen_captured, handed,
               frames>>

pipelineVars == <<runnerVars, frameVars>>

VARIABLES
  files,                 \* which of the output directory, the .mcap and the .mkv exist
  confirm,               \* the operator's answer to the overwrite prompt: "none", "yes", "no"
  output_file,           \* what ensure_output_files_ready returned: "none" or "mcap"
  configured,            \* recorder.configure(): "no" (not called), "yes", "failed"
  hc_resources,          \* the resources list handed to check_resources_health
  unhealthy,             \* what check_resources_health returned, in order
  hc_calls,              \* calls of check_resources_health made on hc_resources
  stop_outcome,          \* how the stop command ended
  kill_calls,            \* calls of os.kill, in order
  pid_text,              \* whose process id the pid file holds: "none", "self", "other"
  other_pc               \* a second record() process: "idle", "recording", "done"

\* all of them but the content of the pid file
commandRest == <<files, confirm, output_file, configured, hc_resources,
                 unhealthy, hc_calls, stop_outcome, kill_calls, other_pc>>

commandVars == <<commandRest, pid_text>>

vars == <<sessionVars, runnerVars, frameVars, commandVars>>

prodVars == <<pstate, ppc, held, nextId, firstDeath>>
queueVars == <<queue, enq>>
loopVars == <<item, written, deq, recording_start_time, last_health_check,
              deadline, interrupted, exitCause>>
inputVars == <<stop_after, health_check_interval>>

NoItem == [topic |-> 0, event |-> 0, publish_time |-> NoTime]
Call(op, r) == [op |-> op, r |-> r]

InLoop == pc \in {"top", "get", "write"}

\* a liveness that only says whether the thread was ever started
is_alive_started(r) == pstate[r] # "new"

\* Thread.is_alive(): started and not yet ended
is_alive(r) == pstate[r] = "running"

\* recorder.py:161-169: the resources list in declaration order, the recorder
\* first; a producer's name is its index
resources == [k \in 1..NumResources |-> k]

\* the liveness test without its call: a bound method is always true
check_resources_health_uncalled(given) == SelectSeq(given, LAMBDA r : FALSE)

\* the names collected back to front
check_resources_health_reversed(given) ==
  LET names == SelectSeq(given, LAMBDA r : ~is_alive(r))
  IN  [k \in 1..Len(names) |-> names[Len(names) + 1 - k]]

\* recorder.py:48-50: the names of the entries that are not alive, in the
\* order of the list
check_resources_health(given) == SelectSeq(given, LAMBDA r : ~is_alive(r))

\* ------------------------------------------------ the pipeline at rest
NoSample == [pts |-> 0, clock_time |-> 0, base_time |-> 0]
NoMetadata == [frame_time_ns |-> 0, latency |-> 0]
NoScreenCaptured == [utc_ns |-> 0, pts_ns |-> 0, uri |-> "none"]

\* gst_runner.py:45-68: the runner as on_configure leaves it
on_configure ==
  /\ rpc = "configured"
  /\ stop_pc = "idle"
  /\ is_cleaned_up = FALSE
  /\ pipeline_state = "NULL"
  /\ main_loop_running = FALSE
  /\ bus = <<>>
  /\ eos = "none"
  /\ posted = [error |-> 0, other |-> 0]
  /\ ops = <<>>
  /\ stops = 0
  /\ cleanup_calls = 0
  /\ exit_path = "none"
  /\ loop_raised = FALSE

\* no buffer has reached the probe or the appsink yet
NoFrame ==
  /\ fpc = "idle"
  /\ sample = NoSample
  /\ wall = 0
  /\ metadata = NoMetadata
  /\ probe = NoMetadata
  /\ screen_captured = NoScreenCaptured
  /\ handed = <<>>
  /\ frames = 0

\* record() has an output path free of old files and a configured recorder,
\* no health check and no stop command have been made on the side
NoCommand ==
  /\ files = [dir |-> TRUE, mcap |-> FALSE, mkv |-> FALSE]
  /\ confirm = "none"
  /\ output_file = "mcap"
  /\ configured = "yes"
  /\ stop_outcome = "none"
  /\ kill_calls = <<>>
  /\ pid_text = "self"
  /\ other_pc = "idle"

\* check_resources_health has not been called on any of the given lists
NoHealthCall(lists) ==
  /\ hc_resources \in lists
  /\ unhealthy = <<>>
  /\ hc_calls = 0

\* a session in which nothing has happened yet
Fresh(nows, stop_afters, intervals) ==
  /\ idx = 1
  /\ raised = "none"
  /\ pstate = [r \in Resources |-> "new"]
  /\ ppc = [r \in Resources |-> "idle"]
  /\ held = [r \in Resources |-> NoItem]
  /\ nextId = 0
  /\ queue = <<>>
  /\ item = NoItem
  /\ written = <<>>
  /\ enq = <<>>
  /\ deq = <<>>
  /\ now \in nows
  /\ recording_start_time = NoTime
  /\ last_health_check = NoTime
  /\ deadline = NoTime
  /\ stop_after \in stop_afters
  /\ health_check_interval \in intervals
  /\ interrupted = FALSE
  /\ exitCause = "none"
  /\ firstDeath = NoTime
  /\ tdFail = [r \in Resources |-> "none"]
  /\ log = <<>>

\* the state in which record() reaches the start loop of setup_resources
\* (recorder.py:320-337, 112-159)
Setup(nows, stop_afters, intervals) ==
  /\ pc = "start"
  /\ pid_file = TRUE
  /\ Fresh(nows, stop_afters, intervals)

Init == Setup(0..1, {0, StopAfter}, {0, HealthInterval}) /\ on_configure /\ NoFrame /\ NoCommand /\ NoHealthCall({<<>>})

\* ------------------------------------------------------------- producers
\* A callback fires on a running producer thread: enqueue_event evaluates
\* time.time_ns() while building the tuple (recorder.py:33) ...
enqueue_event_stamp(r, budget) ==
  /\ pstate[r] = "running"
  /\ ppc[r] = "idle"
  /\ nextId < budget
  /\ ppc' = [ppc EXCEPT ![r] = "stamped"]
  /\ held' = [held EXCEPT ![r] = [topic |-> r, event |-> nextId + 1, publish_time |-> now]]
  /\ nextId' = nextId + 1
  /\ UNCHANGED <<pc, idx, raised, pstate, firstDeath, queueVars, loopVars,
                 now, inputVars, pipelineVars, commandVars, tdFail, log, pid_file>>

\* a put that inserts at the head
put_front(q, e) == <<e>> \o q

\* Queue.put appends at the tail
put(q, e) == Append(q, e)

\* a put on a queue of capacity one, which waits while the queue is full
enqueue_event_put_bounded(r) ==
  /\ ppc[r] = "stamped"
  /\ queue = <<>>
  /\ queue' = put(queue, held[r])
  /\ enq' = Append(enq, held[r])
  /\ ppc' = [ppc EXCEPT ![r] = "idle"]
  /\ held' = [held EXCEPT ![r] = NoItem]
  /\ UNCHANGED <<pc, idx, raised, pstate, nextId, firstDeath, loopVars,
                 now, inputVars, pipelineVars, commandVars, tdFail, log, pid_file>>

\* ... and then puts the tuple on the queue (recorder.py:33); the queue is
\* Queue() without maxsize (recorder.py:29), so the put never waits.
enqueue_event_put(r) ==
  /\ ppc[r] = "stamped"
  /\ queue' = put(queue, held[r])
  /\ enq' = Append(enq, held[r])
  /\ ppc' = [ppc EXCEPT ![r] = "idle"]
  /\ held' = [held EXCEPT ![r] = NoItem]
  /\ UNCHANGED <<pc, idx, raised, pstate, nextId, firstDeath, loopVars,
                 now, inputVars, pipelineVars, commandVars, tdFail, log, pid_file>>

\* A producer thread ends: because stop() was delivered, or by itself (crash).
producer_ends(r) ==
  /\ pstate[r] = "running"
  /\ ppc[r] = "idle"
  /\ pstate' = [pstate EXCEPT ![r] = "dead"]
  /\ firstDeath' = IF InLoop /\ firstDeath = NoTime THEN now ELSE firstDeath
  /\ UNCHANGED <<pc, idx, raised, ppc, held, nextId, queueVars, loopVars,
                 now, inputVars, pipelineVars, commandVars, tdFail, log, pid_file>>

\* ------------------------------------------------- setup_resources: start
\* the start loop walking the list from its end
start_ok_reversed ==
  /\ pc = "start"
  /\ pstate' = [pstate EXCEPT ![NumResources + 1 - idx] = "running"]
  /\ log' = Append(log, Call("start", NumResources + 1 - idx))
  /\ IF idx = NumResources
       THEN /\ pc' = "loop_init"
            /\ idx' = idx
       ELSE /\ pc' = "start"
            /\ idx' = idx + 1
  /\ UNCHANGED <<raised, ppc, held, nextId, firstDeath, queueVars, loopVars,
                 now, inputVars, pipelineVars, commandVars, tdFail, pid_file>>

\* recorder.py:172-174
start_ok ==
  /\ pc = "start"
  /\ pstate' = [pstate EXCEPT ![idx] = "running"]
  /\ log' = Append(log, Call("start", idx))
  /\ IF idx = NumResources
       THEN /\ pc' = "loop_init"
            /\ idx' = idx
       ELSE /\ pc' = "start"
            /\ idx' = idx + 1
  /\ UNCHANGED <<raised, ppc, held, nextId, firstDeath, queueVars, loopVars,
                 now, inputVars, pipelineVars, commandVars, tdFail, pid_file>>

\* start() raises: the start loop is outside the try/finally of
\* setup_resources, so the exception leaves the generator before the yield
\* and reaches the finally clause of record() (recorder.py:360-361).
start_raises ==
  /\ pc = "start"
  /\ log' = Append(log, Call("start", idx))
  /\ raised' = "start"
  /\ pc' = "unlink"
  /\ UNCHANGED <<idx, prodVars, queueVars, loopVars, now, inputVars, pipelineVars, commandVars, tdFail,
                 pid_file>>

\* ------------------------------------------------- _run_recording_loop
\* recorder.py:351-356 and 220-221: the writer is opened and the loop reads
\* the clock twice before its first iteration.
loop_init ==
  /\ pc = "loop_init"
  /\ log' = Append(log, Call("open", 0))
  /\ recording_start_time' = now
  /\ last_health_check' = now
  /\ pc' = "top"
  /\ UNCHANGED <<idx, raised, prodVars, queueVars, item, written, deq, deadline,
                 interrupted, exitCause, now, inputVars, pipelineVars, commandVars, tdFail,
                 pid_file>>

\* recorder.py:230
AutoStopReached ==
  stop_after # 0 /\ (now - recording_start_time) >= stop_after

\* the test of the interval without the test for 0
HealthCheckDue_unguarded ==
  (now - last_health_check) >= health_check_interval

\* recorder.py:235
HealthCheckDue ==
  health_check_interval > 0 /\ (now - last_health_check) >= health_check_interval

\* recorder.py:230-232
auto_stop_break ==
  /\ pc = "top"
  /\ AutoStopReached
  /\ exitCause' = "autostop"
  /\ pc' = "exited"
  /\ UNCHANGED <<idx, raised, prodVars, queueVars, item, written, deq,
                 recording_start_time, last_health_check, deadline, interrupted,
                 now, inputVars, pipelineVars, commandVars, tdFail, log, pid_file>>

\* recorder.py:235-240
health_check_fail ==
  /\ pc = "top"
  /\ ~AutoStopReached
  /\ HealthCheckDue
  /\ check_resources_health(resources) # <<>>
  /\ exitCause' = "health"
  /\ pc' = "exited"
  /\ UNCHANGED <<idx, raised, prodVars, queueVars, item, written, deq,
                 recording_start_time, last_health_check, deadline, interrupted,
                 now, inputVars, pipelineVars, commandVars, tdFail, log, pid_file>>

\* recorder.py:235-245: the check passes, the loop goes on to the get
health_check_pass ==
  /\ pc = "top"
  /\ ~AutoStopReached
  /\ HealthCheckDue
  /\ check_resources_health(resources) = <<>>
  /\ last_health_check' = now
  /\ deadline' = now + DequeueTimeout
  /\ pc' = "get"
  /\ UNCHANGED <<idx, raised, prodVars, queueVars, item, written, deq,
                 recording_start_time, interrupted, exitCause, now,
                 inputVars, pipelineVars, commandVars, tdFail, log, pid_file>>

\* recorder.py:245: no check is due, the loop goes on to the get
begin_get ==
  /\ pc = "top"
  /\ ~AutoStopReached
  /\ ~HealthCheckDue
  /\ deadline' = now + DequeueTimeout
  /\ pc' = "get"
  /\ UNCHANGED <<idx, raised, prodVars, queueVars, item, written, deq,
                 recording_start_time, last_health_check, interrupted, exitCause,
                 now, inputVars, pipelineVars, commandVars, tdFail, log, pid_file>>

\* a get() that blocks without a timeout
tick_no_timeout(horizon) ==
  /\ pc = "get"
  /\ now < horizon
  /\ now' = now + 1
  /\ UNCHANGED <<pc, idx, raised, prodVars, queueVars, loopVars, inputVars, pipelineVars, commandVars,
                 tdFail, log, pid_file>>

\* time passes while the loop is blocked in get(timeout=0.1)
tick(horizon) ==
  /\ pc = "get"
  /\ now < deadline
  /\ now < horizon
  /\ now' = now + 1
  /\ UNCHANGED <<pc, idx, raised, prodVars, queueVars, loopVars, inputVars, pipelineVars, commandVars,
                 tdFail, log, pid_file>>

\* a get that returns the head and leaves it in the queue
get_peek(q) == [entry |-> Head(q), rest |-> q]

\* Queue.get returns the head and removes it
get(q) == [entry |-> Head(q), rest |-> Tail(q)]

\* recorder.py:245: get returns an entry
get_item ==
  /\ pc = "get"
  /\ queue # <<>>
  /\ item' = get(queue).entry
  /\ queue' = get(queue).rest
  /\ deq' = Append(deq, get(queue).entry)
  /\ deadline' = NoTime
  /\ pc' = "write"
  /\ UNCHANGED <<idx, raised, prodVars, enq, written, recording_start_time,
                 last_health_check, interrupted, exitCause,
                 now, inputVars, pipelineVars, commandVars, tdFail, log, pid_file>>

\* leaving the loop on queue.Empty instead of continuing
AfterEmpty_break == "exited"

\* where the loop goes after queue.Empty: continue (recorder.py:246-247)
AfterEmpty == "top"

\* recorder.py:245-247: the timeout elapsed with nothing in the queue
get_empty ==
  /\ pc = "get"
  /\ queue = <<>>
  /\ now >= deadline
  /\ deadline' = NoTime
  /\ pc' = AfterEmpty
  /\ UNCHANGED <<idx, raised, prodVars, queueVars, item, written, deq,
                 recording_start_time, last_health_check, interrupted,
                 exitCause, now, inputVars, pipelineVars, commandVars, tdFail, log, pid_file>>

\* a write that stamps the message with the time of the write
write_ok_restamped ==
  /\ pc = "write"
  /\ written' = Append(written, [item EXCEPT !.publish_time = now])
  /\ item' = NoItem
  /\ pc' = "top"
  /\ UNCHANGED <<idx, raised, prodVars, queueVars, deq, recording_start_time,
                 last_health_check, deadline, interrupted, exitCause,
                 now, inputVars, pipelineVars, commandVars, tdFail, log, pid_file>>

\* recorder.py:259: write_message returns
write_ok ==
  /\ pc = "write"
  /\ written' = Append(written, item)
  /\ item' = NoItem
  /\ pc' = "top"
  /\ UNCHANGED <<idx, raised, prodVars, queueVars, deq, recording_start_time,
                 last_health_check, deadline, interrupted, exitCause,
                 now, inputVars, pipelineVars, commandVars, tdFail, log, pid_file>>

\* a writer error after which the loop tries the same event again
write_raises_retry ==
  /\ pc = "write"
  /\ raised' = "none"
  /\ exitCause' = "writer"
  /\ pc' = "write"
  /\ UNCHANGED <<idx, prodVars, queueVars, item, written, deq,
                 recording_start_time, last_health_check, deadline, interrupted,
                 now, inputVars, pipelineVars, commandVars, tdFail, log, pid_file>>

\* a writer error that bypasses the context managers
write_raises_no_teardown ==
  /\ pc = "write"
  /\ raised' = "writer"
  /\ exitCause' = "writer"
  /\ pc' = "unlink"
  /\ UNCHANGED <<idx, prodVars, queueVars, item, written, deq,
                 recording_start_time, last_health_check, deadline, interrupted,
                 now, inputVars, pipelineVars, commandVars, tdFail, log, pid_file>>

\* recorder.py:259: write_message raises; only KeyboardInterrupt is caught
\* (recorder.py:267), so the error leaves the loop.
write_raises ==
  /\ pc = "write"
  /\ raised' = "writer"
  /\ exitCause' = "writer"
  /\ pc' = "exited"
  /\ UNCHANGED <<idx, prodVars, queueVars, item, written, deq,
                 recording_start_time, last_health_check, deadline, interrupted,
                 now, inputVars, pipelineVars, commandVars, tdFail, log, pid_file>>

\* recorder.py:267-268: KeyboardInterrupt inside the try of the loop
keyboard_interrupt ==
  /\ InLoop
  /\ interrupted' = TRUE
  /\ exitCause' = "interrupt"
  /\ deadline' = NoTime
  /\ pc' = "exited"
  /\ UNCHANGED <<idx, raised, prodVars, queueVars, item, written, deq,
                 recording_start_time, last_health_check, now,
                 inputVars, pipelineVars, commandVars, tdFail, log, pid_file>>

\* ------------------------------------------------------------- shutdown
\* a final drain of the queue after the loop
AfterLoop_drain == "get"

\* recorder.py:351: leaving the with block of the writer closes it, on the
\* normal path and on the exception path alike.
AfterLoop == "close"

\* a return from the loop that writes what is left in the queue
loop_left_flushing ==
  /\ pc = "exited"
  /\ pc' = AfterLoop
  /\ item' = NoItem
  /\ recording_start_time' = NoTime
  /\ last_health_check' = NoTime
  /\ firstDeath' = NoTime
  /\ written' = written \o queue
  /\ deq' = deq \o queue
  /\ queue' = <<>>
  /\ UNCHANGED <<idx, raised, pstate, ppc, held, nextId, enq,
                 deadline, interrupted, exitCause, now, inputVars, pipelineVars,
                 commandVars, tdFail, log, pid_file>>

\* _run_recording_loop returns or raises: its locals are gone

loop_left ==
  /\ pc = "exited"
  /\ pc' = AfterLoop
  /\ item' = NoItem
  /\ recording_start_time' = NoTime
  /\ last_health_check' = NoTime
  /\ firstDeath' = NoTime
  /\ UNCHANGED <<idx, raised, pstate, ppc, held, nextId, queueVars, written,
                 deq, deadline, interrupted, exitCause, now, inputVars, pipelineVars, commandVars, tdFail,
                 log, pid_file>>

close_writer ==
  /\ pc = "close"
  /\ log' = Append(log, Call("close", 0))
  /\ pc' = "td_stop"
  /\ idx' = 1
  /\ UNCHANGED <<raised, prodVars, queueVars, loopVars, now, inputVars, pipelineVars, commandVars, tdFail,
                 pid_file>>

\* the teardown walking the list in declaration order
forward_resources == [k \in 1..NumResources |-> k]

\* recorder.py:180: reversed(resources), as the sequence the teardown walks
reversed_resources == [k \in 1..NumResources |-> NumResources + 1 - k]

cur == reversed_resources[idx]

\* the next iteration of the teardown loop, or the end of setup_resources
TeardownAdvance ==
  IF idx = NumResources
    THEN /\ pc' = "unlink"
         /\ idx' = idx
    ELSE /\ pc' = "td_stop"
         /\ idx' = idx + 1

\* recorder.py:182
stop_ok ==
  /\ pc = "td_stop"
  /\ log' = Append(log, Call("stop", cur))
  /\ pc' = "td_join"
  /\ UNCHANGED <<idx, raised, prodVars, queueVars, loopVars, now, inputVars, pipelineVars, commandVars,
                 tdFail, pid_file>>

\* a teardown error that is raised again
TeardownError_reraise(kind) ==
  /\ tdFail' = [tdFail EXCEPT ![cur] = kind]
  /\ raised' = "teardown"
  /\ pc' = "unlink"
  /\ idx' = idx

\* what an exception of stop()/join() does to the teardown: it is logged
\* and the loop goes on (recorder.py:186-187)
TeardownError(kind) ==
  /\ tdFail' = [tdFail EXCEPT ![cur] = kind]
  /\ raised' = raised
  /\ TeardownAdvance

\* recorder.py:182, 186-187
stop_raises ==
  /\ pc = "td_stop"
  /\ log' = Append(log, Call("stop", cur))
  /\ TeardownError("stop")
  /\ UNCHANGED <<prodVars, queueVars, loopVars, now, inputVars, pipelineVars, commandVars, pid_file>>

\* recorder.py:183: the thread has ended, join returns
join_returns ==
  /\ pc = "td_join"
  /\ ~is_alive(cur)
  /\ log' = Append(log, Call("join", cur))
  /\ pc' = "td_alive"
  /\ UNCHANGED <<idx, raised, prodVars, queueVars, loopVars, now, inputVars, pipelineVars, commandVars,
                 tdFail, pid_file>>

\* recorder.py:183: the thread is still running when the 5 s are over
join_times_out ==
  /\ pc = "td_join"
  /\ is_alive(cur)
  /\ log' = Append(log, Call("join", cur))
  /\ pc' = "td_alive"
  /\ UNCHANGED <<idx, raised, prodVars, queueVars, loopVars, now, inputVars, pipelineVars, commandVars,
                 tdFail, pid_file>>

\* recorder.py:183, 186-187
join_raises ==
  /\ pc = "td_join"
  /\ log' = Append(log, Call("join", cur))
  /\ TeardownError("join")
  /\ UNCHANGED <<prodVars, queueVars, loopVars, now, inputVars, pipelineVars, commandVars, pid_file>>

\* recorder.py:184-187: assert not resource.is_alive()
alive_check ==
  /\ pc = "td_alive"
  /\ log' = Append(log, Call("is_alive", cur))
  /\ IF is_alive(cur)
       THEN TeardownError("alive")
       ELSE /\ TeardownAdvance
            /\ UNCHANGED <<tdFail, raised>>
  /\ UNCHANGED <<prodVars, queueVars, loopVars, now, inputVars, pipelineVars, commandVars, pid_file>>

\* an unlink that follows the with block instead of standing in a finally
unlink_on_return ==
  /\ pc = "unlink"
  /\ pid_file' = (raised # "none")
  /\ log' = Append(log, Call("unlink", 0))
  /\ pid_text' = IF raised # "none" THEN pid_text ELSE "none"
  /\ pc' = "done"
  /\ UNCHANGED <<idx, raised, prodVars, queueVars, loopVars, now, inputVars,
                 pipelineVars, commandRest, tdFail>>

\* recorder.py:360-361
unlink ==
  /\ pc = "unlink"
  /\ pid_file' = FALSE
  /\ log' = Append(log, Call("unlink", 0))
  /\ pid_text' = "none"
  /\ pc' = "done"
  /\ UNCHANGED <<idx, raised, prodVars, queueVars, loopVars, now, inputVars, pipelineVars, commandRest,
                 tdFail>>

Next ==
  \/ start_ok
  \/ start_raises
  \/ \E r \in Resources : enqueue_event_stamp(r, MaxEvents)
  \/ \E r \in Resources : enqueue_event_put(r)
  \/ \E r \in Resources : producer_ends(r)
  \/ loop_init
  \/ auto_stop_break
  \/ health_check_fail
  \/ health_check_pass
  \/ begin_get
  \/ tick(MaxTime)
  \/ get_item
  \/ get_empty
  \/ write_ok
  \/ write_raises
  \/ keyboard_interrupt
  \/ loop_left
  \/ close_writer
  \/ stop_ok
  \/ stop_raises
  \/ join_returns
  \/ join_times_out
  \/ join_raises
  \/ alive_check
  \/ unlink

Spec == Init /\ [][Next]_vars

\* The session as the queue sees it: more events, and an environment without
\* faults (no start(), stop(), join() or write_message() raises), without
\* the two timers, and with a clock that stops after one dequeue timeout.
InitQueue == Setup({0}, {0}, {0}) /\ on_configure /\ NoFrame /\ NoCommand /\ NoHealthCall({<<>>})

NextQueue ==
  \/ start_ok
  \/ \E r \in Resources : enqueue_event_stamp(r, QueueEvents)
  \/ \E r \in Resources : enqueue_event_put(r)
  \/ \E r \in Resources : producer_ends(r)
  \/ loop_init
  \/ begin_get
  \/ tick(DequeueTimeout)
  \/ get_item
  \/ get_empty
  \/ write_ok
  \/ keyboard_interrupt
  \/ loop_left
  \/ close_writer
  \/ stop_ok
  \/ join_returns
  \/ join_times_out
  \/ alive_check
  \/ unlink

SpecQueue == InitQueue /\ [][NextQueue]_vars

\* The session in which no input event arrives: every fault of start(),
\* stop() and join(), producers that end at any moment or never, and a loop
\* that ends by auto-stop, by a failed health check or by an interrupt.
NextQuiet ==
  \/ start_ok
  \/ start_raises
  \/ \E r \in Resources : producer_ends(r)
  \/ loop_init
  \/ auto_stop_break
  \/ health_check_fail
  \/ health_check_pass
  \/ begin_get
  \/ tick(MaxTime)
  \/ get_empty
  \/ keyboard_interrupt
  \/ loop_left
  \/ close_writer
  \/ stop_ok
  \/ stop_raises
  \/ join_returns
  \/ join_times_out
  \/ join_raises
  \/ alive_check
  \/ unlink

SpecQuiet == Init /\ [][NextQuiet]_vars

\* The recording loop on its own: the session from construction until
\* _run_recording_loop has returned or raised, with every producer event,
\* producer death, timer and writer fault, and nothing of what follows it.
NextLoop ==
  \/ start_ok
  \/ \E r \in Resources : enqueue_event_stamp(r, MaxEvents)
  \/ \E r \in Resources : enqueue_event_put(r)
  \/ \E r \in Resources : producer_ends(r)
  \/ loop_init
  \/ auto_stop_break
  \/ health_check_fail
  \/ health_check_pass
  \/ begin_get
  \/ tick(MaxTime)
  \/ get_item
  \/ get_empty
  \/ write_ok
  \/ write_raises
  \/ keyboard_interrupt
  \/ loop_left

SpecLoop == Init /\ [][NextLoop]_vars

\* ====================================================================
\* The pipeline runner (gst_runner.py, gst_lifecycle.py)
\*
\* The GStreamer side is the environment: set_state(PLAYING) answers with
\* any GstStateChangeReturn, an asynchronous change completes or not, the
\* pipeline posts ERROR and other messages at will, and an end-of-stream
\* event sent to its sources comes back as one EOS message once the
\* pipeline is PLAYING (GstBaseSrc keeps an EOS event it receives before it
\* is started).  Messages stay on the bus until timed_pop_filtered or the
\* signal watch of the running main loop takes them off.
\* ====================================================================
Op(name) == [op |-> name, state |-> pipeline_state, at |-> rpc]

\* the runner thread lives from start() until loop() is through
runner_is_alive == rpc \notin {"configured", "ended"}

\* Runnable.start(): the thread that runs loop() is started
start ==
  /\ rpc = "configured"
  /\ rpc' = "set_state"
  /\ UNCHANGED <<stop_pc, is_cleaned_up, pipeline_state, main_loop_running, bus,
                 eos, posted, ops, stops, cleanup_calls, exit_path, loop_raised,
                 commandVars, sessionVars, frameVars>>

\* gst_lifecycle.py:34, ret is SUCCESS or NO_PREROLL: try_set_state returns
set_state_success ==
  /\ rpc = "set_state"
  /\ ops' = Append(ops, Op("set_state_PLAYING"))
  /\ pipeline_state' = "PLAYING"
  /\ rpc' = "run_enter"
  /\ UNCHANGED <<stop_pc, is_cleaned_up, main_loop_running, bus, eos, posted,
                 stops, cleanup_calls, exit_path, loop_raised, commandVars, sessionVars,
                 frameVars>>

\* gst_lifecycle.py:34, 47-48: ret is ASYNC
set_state_async ==
  /\ rpc = "set_state"
  /\ ops' = Append(ops, Op("set_state_PLAYING"))
  /\ pipeline_state' = "ASYNC"
  /\ rpc' = "wait_async"
  /\ UNCHANGED <<stop_pc, is_cleaned_up, main_loop_running, bus, eos, posted,
                 stops, cleanup_calls, exit_path, loop_raised, commandVars, sessionVars,
                 frameVars>>

\* gst_lifecycle.py:34, 41: ret is FAILURE
set_state_failure ==
  /\ rpc = "set_state"
  /\ ops' = Append(ops, Op("set_state_PLAYING"))
  /\ pipeline_state' = "FAILED"
  /\ rpc' = "pop_error"
  /\ UNCHANGED <<stop_pc, is_cleaned_up, main_loop_running, bus, eos, posted,
                 stops, cleanup_calls, exit_path, loop_raised, commandVars, sessionVars,
                 frameVars>>

FirstOf(b, type) ==
  CHOOSE i \in DOMAIN b : b[i] = type /\ \A j \in 1..(i - 1) : b[j] # type

\* Gst.Bus.timed_pop_filtered as try_set_state and wait_for_message use it:
\* the first message of the wanted type is returned, the messages in front
\* of it are discarded, and when the time is up the bus has been emptied.
timed_pop_filtered(b, type) ==
  IF \E i \in DOMAIN b : b[i] = type
    THEN [msg |-> type, rest |-> SubSeq(b, FirstOf(b, type) + 1, Len(b))]
    ELSE [msg |-> "none", rest |-> <<>>]

\* gst_lifecycle.py:42-46: the failure is logged if the bus has it, and raised
pop_error ==
  /\ rpc = "pop_error"
  /\ bus' = timed_pop_filtered(bus, "ERROR").rest
  /\ loop_raised' = TRUE
  /\ exit_path' = "failed"
  /\ rpc' = "finally"
  /\ UNCHANGED <<stop_pc, is_cleaned_up, pipeline_state, main_loop_running, eos,
                 posted, ops, stops, cleanup_calls, commandVars, sessionVars, frameVars>>

\* gst_lifecycle.py:48, 65-68: ASYNC_DONE arrived within the timeout
wait_async_done ==
  /\ rpc = "wait_async"
  /\ timed_pop_filtered(bus, "ASYNC_DONE").msg = "ASYNC_DONE"
  /\ bus' = timed_pop_filtered(bus, "ASYNC_DONE").rest
  /\ rpc' = "run_enter"
  /\ UNCHANGED <<stop_pc, is_cleaned_up, pipeline_state, main_loop_running, eos,
                 posted, ops, stops, cleanup_calls, exit_path, loop_raised,
                 commandVars, sessionVars, frameVars>>

\* a wait whose timeout is logged and followed by the run loop
wait_async_timeout_ignored ==
  /\ rpc = "wait_async"
  /\ timed_pop_filtered(bus, "ASYNC_DONE").msg = "none"
  /\ bus' = timed_pop_filtered(bus, "ASYNC_DONE").rest
  /\ exit_path' = "timeout"
  /\ rpc' = "run_enter"
  /\ UNCHANGED <<stop_pc, is_cleaned_up, pipeline_state, main_loop_running, eos,
                 posted, ops, stops, cleanup_calls, loop_raised, commandVars,
                 sessionVars, frameVars>>

\* gst_lifecycle.py:65-67: no ASYNC_DONE within the timeout, wait_for_message raises
wait_async_timeout ==
  /\ rpc = "wait_async"
  /\ timed_pop_filtered(bus, "ASYNC_DONE").msg = "none"
  /\ bus' = timed_pop_filtered(bus, "ASYNC_DONE").rest
  /\ loop_raised' = TRUE
  /\ exit_path' = "timeout"
  /\ rpc' = "finally"
  /\ UNCHANGED <<stop_pc, is_cleaned_up, pipeline_state, main_loop_running, eos,
                 posted, ops, stops, cleanup_calls, commandVars, sessionVars, frameVars>>

\* gst_runner.py:79: main_loop.run() sets the running flag and iterates
main_loop_run ==
  /\ rpc = "run_enter"
  /\ main_loop_running' = TRUE
  /\ ops' = Append(ops, Op("run"))
  /\ rpc' = "run"
  /\ UNCHANGED <<stop_pc, is_cleaned_up, pipeline_state, bus, eos, posted, stops,
                 cleanup_calls, exit_path, loop_raised, commandVars, sessionVars, frameVars>>

\* an on_message that lets errors pass
on_message_eos_only(message) == message = "EOS"

\* an on_message that lets end-of-stream pass
on_message_error_only(message) == message = "ERROR"

\* gst_runner.py:21-37: TRUE when the handler calls loop.quit()
on_message(message) == message \in {"EOS", "ERROR"}

\* the signal watch hands the next bus message to on_message (gst_runner.py:66-68)
dispatch ==
  /\ rpc = "run"
  /\ main_loop_running
  /\ bus # <<>>
  /\ bus' = Tail(bus)
  /\ IF on_message(Head(bus))
       THEN /\ main_loop_running' = FALSE
            /\ ops' = Append(ops, Op("quit"))
            /\ exit_path' = Head(bus)
       ELSE UNCHANGED <<main_loop_running, ops, exit_path>>
  /\ UNCHANGED <<rpc, stop_pc, is_cleaned_up, pipeline_state, eos, posted, stops,
                 cleanup_calls, loop_raised, commandVars, sessionVars, frameVars>>

\* gst_runner.py:79: run() returns once quit() has cleared the running flag
main_loop_returns ==
  /\ rpc = "run"
  /\ ~main_loop_running
  /\ rpc' = "finally"
  /\ UNCHANGED <<stop_pc, is_cleaned_up, pipeline_state, main_loop_running, bus,
                 eos, posted, ops, stops, cleanup_calls, exit_path, loop_raised,
                 commandVars, sessionVars, frameVars>>

\* a cleanup without the "already cleaned" test
cleanup_unguarded ==
  /\ main_loop_running' = FALSE
  /\ pipeline_state' = "NULL"
  /\ ops' = ops \o <<Op("quit"), Op("set_state_NULL")>>
  /\ is_cleaned_up' = TRUE

\* gst_runner.py:81-87
cleanup ==
  /\ IF ~is_cleaned_up
       THEN /\ main_loop_running' = FALSE
            /\ pipeline_state' = "NULL"
            /\ ops' = ops \o <<Op("quit"), Op("set_state_NULL")>>
       ELSE UNCHANGED <<main_loop_running, pipeline_state, ops>>
  /\ is_cleaned_up' = TRUE

\* a loop() that cleans up only after _loop() has returned
loop_cleanup_on_return ==
  /\ rpc = "finally"
  /\ IF loop_raised
       THEN UNCHANGED <<main_loop_running, pipeline_state, ops, is_cleaned_up>>
       ELSE cleanup
  /\ rpc' = "ended"
  /\ UNCHANGED <<stop_pc, bus, eos, posted, stops, cleanup_calls, exit_path,
                 loop_raised, commandVars, sessionVars, frameVars>>

\* gst_runner.py:73-74: the finally of loop(); then the thread ends
loop_finally ==
  /\ rpc = "finally"
  /\ cleanup
  /\ rpc' = "ended"
  /\ UNCHANGED <<stop_pc, bus, eos, posted, stops, cleanup_calls, exit_path,
                 loop_raised, commandVars, sessionVars, frameVars>>

\* cleanup() called again once loop() is through
cleanup_again ==
  /\ rpc = "ended"
  /\ cleanup_calls < MaxCleanups
  /\ cleanup
  /\ cleanup_calls' = cleanup_calls + 1
  /\ UNCHANGED <<rpc, stop_pc, bus, eos, posted, stops, exit_path, loop_raised,
                 commandVars, sessionVars, frameVars>>

\* a stop() that does not test the flag
stop_check_unguarded ==
  /\ stop_pc = "idle"
  /\ rpc # "configured"
  /\ stops < MaxStops
  /\ stop_pc' = "send"
  /\ UNCHANGED <<rpc, is_cleaned_up, pipeline_state, main_loop_running, bus, eos,
                 posted, ops, stops, cleanup_calls, exit_path, loop_raised,
                 commandVars, sessionVars, frameVars>>

\* a stop() that returns without looking at the pipeline
stop_check_noop ==
  /\ stop_pc = "idle"
  /\ rpc # "configured"
  /\ stops < MaxStops
  /\ stop_pc' = "idle"
  /\ stops' = stops + 1
  /\ UNCHANGED <<rpc, is_cleaned_up, pipeline_state, main_loop_running, bus, eos,
                 posted, ops, cleanup_calls, exit_path, loop_raised,
                 commandVars, sessionVars, frameVars>>

\* gst_runner.py:91: stop() tests the flag
stop_check ==
  /\ stop_pc = "idle"
  /\ rpc # "configured"
  /\ stops < MaxStops
  /\ IF ~is_cleaned_up
       THEN stop_pc' = "send" /\ stops' = stops
       ELSE stop_pc' = "idle" /\ stops' = stops + 1
  /\ UNCHANGED <<rpc, is_cleaned_up, pipeline_state, main_loop_running, bus, eos,
                 posted, ops, cleanup_calls, exit_path, loop_raised, commandVars, sessionVars,
                 frameVars>>

\* a stop() that forces the pipeline to NULL
stop_send_forcing_null ==
  /\ stop_pc = "send"
  /\ ops' = Append(ops, Op("set_state_NULL"))
  /\ pipeline_state' = "NULL"
  /\ stops' = stops + 1
  /\ stop_pc' = "idle"
  /\ UNCHANGED <<rpc, is_cleaned_up, main_loop_running, bus, eos, posted,
                 cleanup_calls, exit_path, loop_raised, commandVars, sessionVars, frameVars>>

\* gst_runner.py:92: stop() sends the end-of-stream event
stop_send ==
  /\ stop_pc = "send"
  /\ ops' = Append(ops, Op("send_event_EOS"))
  /\ eos' = IF eos = "none" THEN "pending" ELSE eos
  /\ stops' = stops + 1
  /\ stop_pc' = "idle"
  /\ UNCHANGED <<rpc, is_cleaned_up, pipeline_state, main_loop_running, bus,
                 posted, cleanup_calls, exit_path, loop_raised, commandVars, sessionVars,
                 frameVars>>

\* ------------------------------------------------------------ GStreamer
\* the asynchronous state change completes
gst_async_done ==
  /\ pipeline_state = "ASYNC"
  /\ bus' = Append(bus, "ASYNC_DONE")
  /\ pipeline_state' = "PLAYING"
  /\ UNCHANGED <<rpc, stop_pc, is_cleaned_up, main_loop_running, eos, posted, ops,
                 stops, cleanup_calls, exit_path, loop_raised, commandVars, sessionVars,
                 frameVars>>

\* the end-of-stream event has passed through the playing pipeline
gst_posts_eos ==
  /\ eos = "pending"
  /\ pipeline_state = "PLAYING"
  /\ bus' = Append(bus, "EOS")
  /\ eos' = "posted"
  /\ UNCHANGED <<rpc, stop_pc, is_cleaned_up, pipeline_state, main_loop_running,
                 posted, ops, stops, cleanup_calls, exit_path, loop_raised,
                 commandVars, sessionVars, frameVars>>

\* an element fails
gst_posts_error ==
  /\ pipeline_state \in {"ASYNC", "PLAYING", "FAILED"}
  /\ posted.error < MaxErrors
  /\ bus' = Append(bus, "ERROR")
  /\ posted' = [posted EXCEPT !.error = @ + 1]
  /\ UNCHANGED <<rpc, stop_pc, is_cleaned_up, pipeline_state, main_loop_running,
                 eos, ops, stops, cleanup_calls, exit_path, loop_raised,
                 commandVars, sessionVars, frameVars>>

\* a message of any other kind
gst_posts_other ==
  /\ pipeline_state \in {"ASYNC", "PLAYING"}
  /\ posted.other < MaxOthers
  /\ bus' = Append(bus, "STATE_CHANGED")
  /\ posted' = [posted EXCEPT !.other = @ + 1]
  /\ UNCHANGED <<rpc, stop_pc, is_cleaned_up, pipeline_state, main_loop_running,
                 eos, ops, stops, cleanup_calls, exit_path, loop_raised,
                 commandVars, sessionVars, frameVars>>

\* the steps of the runner thread
RunnerThread ==
  \/ set_state_success
  \/ set_state_async
  \/ set_state_failure
  \/ pop_error
  \/ wait_async_done
  \/ wait_async_timeout
  \/ main_loop_run
  \/ dispatch
  \/ main_loop_returns
  \/ loop_finally

InitRunner == Setup({0}, {0}, {0}) /\ on_configure /\ NoFrame /\ NoCommand /\ NoHealthCall({<<>>})

NextRunner ==
  \/ start
  \/ set_state_success
  \/ set_state_async
  \/ set_state_failure
  \/ pop_error
  \/ wait_async_done
  \/ wait_async_timeout
  \/ main_loop_run
  \/ dispatch
  \/ main_loop_returns
  \/ loop_finally
  \/ cleanup_again
  \/ stop_check
  \/ stop_send
  \/ gst_async_done
  \/ gst_posts_eos
  \/ gst_posts_error
  \/ gst_posts_other

SpecRunner == InitRunner /\ [][NextRunner]_vars

\* The same runner with the scheduling the threads have: the runner thread
\* and the caller inside stop() keep running, and the pipeline delivers the
\* end-of-stream it was sent.  Nothing obliges the pipeline to complete an
\* asynchronous state change or to post an error.
SpecRunnerFair ==
  /\ InitRunner
  /\ [][NextRunner]_vars
  /\ WF_vars(RunnerThread)
  /\ WF_vars(stop_send)
  /\ WF_vars(gst_posts_eos)

\* ====================================================================
\* One frame through the pipeline (gst_sample_postprocess.py,
\* appsink_recorder.py, extensions.py).  Clock values are nanoseconds.
\* ====================================================================
PtsValues == {CLOCK_TIME_NONE, 950000000, 1000000000}
ClockTimes == {2000000000, 2050000000}
BaseTimes == {1000000000, 1050000000}
WallTimes == {500000000, 900000000}

\* a buffer reaches the src pad of the identity element "ts"; the values the
\* callbacks will read from the buffer and the clocks are fixed here
buffer_arrives ==
  /\ fpc = "idle"
  /\ frames < MaxFrames
  /\ \E p \in PtsValues, c \in ClockTimes, b \in BaseTimes :
       sample' = [pts |-> p, clock_time |-> c, base_time |-> b]
  /\ wall' \in WallTimes
  /\ frames' = frames + 1
  /\ fpc' = "probe"
  /\ UNCHANGED <<metadata, probe, screen_captured, handed, commandVars, sessionVars,
                 runnerVars>>

\* appsink_recorder.py:105-130: the probe reads the wall clock, computes the
\* latency and builds the event it hands to the callback
buffer_probe_callback ==
  /\ fpc = "probe"
  /\ LET frame_time_ns == wall
         elapsed == sample.clock_time - sample.base_time
         latency == elapsed - sample.pts
     IN /\ probe' = [frame_time_ns |-> frame_time_ns, latency |-> latency]
        /\ screen_captured' = [utc_ns |-> frame_time_ns,
                               pts_ns |-> sample.pts,
                               uri |-> "absolute"]
  /\ fpc' = "callback"
  /\ UNCHANGED <<sample, wall, metadata, handed, frames, commandVars, sessionVars,
                 runnerVars>>

\* recorder.py:122-125: the media reference is made relative and the event
\* goes to context.enqueue_event
screen_callback ==
  /\ fpc = "callback"
  /\ handed' = Append(handed, [screen_captured EXCEPT !.uri = "relative"])
  /\ fpc' = "appsink"
  /\ UNCHANGED <<sample, wall, metadata, probe, screen_captured, frames,
                 commandVars, sessionVars, runnerVars>>

\* a get_frame_time_ns without the test for the sentinel
get_frame_time_ns_unchecked(s, T) ==
  LET elapsed == s.clock_time - s.base_time
      latency == elapsed - s.pts
  IN [frame_time_ns |-> T - latency, latency |-> latency]

\* gst_sample_postprocess.py:16-37; T is what time.time_ns() returns
get_frame_time_ns(s, T) ==
  IF s.pts = CLOCK_TIME_NONE
    THEN [frame_time_ns |-> T, latency |-> 0]
    ELSE LET elapsed == s.clock_time - s.base_time
             latency == elapsed - s.pts
         IN [frame_time_ns |-> T - latency, latency |-> latency]

\* extensions.py:38-63: the sample reaches an appsink whose callback asks
\* for metadata
on_new_sample ==
  /\ fpc = "appsink"
  /\ metadata' = get_frame_time_ns(sample, wall)
  /\ fpc' = "idle"
  /\ UNCHANGED <<sample, wall, probe, screen_captured, handed, frames,
                 commandVars, sessionVars, runnerVars>>

InitFrame == Setup({0}, {0}, {0}) /\ on_configure /\ NoFrame /\ NoCommand /\ NoHealthCall({<<>>})

NextFrame ==
  \/ buffer_arrives
  \/ buffer_probe_callback
  \/ screen_callback
  \/ on_new_sample

SpecFrame == InitFrame /\ [][NextFrame]_vars

\* ===================================================================
\* check_resources_health called on its own (recorder.py:48-50)
\* ===================================================================
\* the lists the function is tried on: every list of up to NumResources + 1
\* entries, the empty list and lists that name a producer twice included
HealthInputs == UNION {[1..n -> Resources] : n \in 0..(NumResources + 1)}

\* one call of check_resources_health(hc_resources); the liveness of the
\* producers is whatever start() and the end of their threads have made it
check_call ==
  /\ hc_calls < MaxHealthCalls
  /\ unhealthy' = check_resources_health(hc_resources)
  /\ hc_calls' = hc_calls + 1
  /\ UNCHANGED <<sessionVars, pipelineVars, files, confirm, output_file,
                 configured, hc_resources, stop_outcome, kill_calls, pid_text, other_pc>>

InitHealth ==
  Setup({0}, {0}, {0}) /\ on_configure /\ NoFrame /\ NoCommand /\ NoHealthCall(HealthInputs)

NextHealth ==
  \/ start_ok
  \/ \E r \in Resources : producer_ends(r)
  \/ check_call

SpecHealth == InitHealth /\ [][NextHealth]_vars

\* ===================================================================
\* record() before the start loop, and the stop command
\* ===================================================================
\* recorder.py:56-58: the parent directory is created when it is missing
mkdir(f) == [f EXCEPT !.dir = TRUE]

\* the output path when record() is entered: files can only exist in a
\* directory that exists
FileStates ==
  {f \in [dir : BOOLEAN, mcap : BOOLEAN, mkv : BOOLEAN] :
     (f.mcap \/ f.mkv) => f.dir}

\* a function that asks for confirmation whatever it finds
ensure_output_files_ready_free_asking ==
  /\ pc = "ensure"
  /\ ~(files.mcap \/ files.mkv)
  /\ confirm' = "yes"
  /\ files' = mkdir(files)
  /\ output_file' = "mcap"
  /\ pc' = "write_pid"
  /\ UNCHANGED <<idx, raised, prodVars, queueVars, loopVars, now, inputVars,
                 pipelineVars, tdFail, log, pid_file, configured,
                 hc_resources, unhealthy, hc_calls, stop_outcome, kill_calls, pid_text, other_pc>>

\* recorder.py:53-58, 67: neither output file exists, nothing is asked
ensure_output_files_ready_free ==
  /\ pc = "ensure"
  /\ ~(files.mcap \/ files.mkv)
  /\ files' = mkdir(files)
  /\ output_file' = "mcap"
  /\ pc' = "write_pid"
  /\ UNCHANGED <<idx, raised, prodVars, queueVars, loopVars, now, inputVars,
                 pipelineVars, tdFail, log, pid_file, confirm, configured,
                 hc_resources, unhealthy, hc_calls, stop_outcome, kill_calls, pid_text, other_pc>>

\* a confirmed overwrite that removes the .mcap and leaves the .mkv
ensure_output_files_ready_confirmed_mcap_only ==
  /\ pc = "ensure"
  /\ files.mcap \/ files.mkv
  /\ confirm' = "yes"
  /\ files' = [mkdir(files) EXCEPT !.mcap = FALSE]
  /\ output_file' = "mcap"
  /\ pc' = "write_pid"
  /\ UNCHANGED <<idx, raised, prodVars, queueVars, loopVars, now, inputVars,
                 pipelineVars, tdFail, log, pid_file, configured,
                 hc_resources, unhealthy, hc_calls, stop_outcome, kill_calls, pid_text, other_pc>>

\* recorder.py:59-67: an output file exists and typer.confirm returns True:
\* both files are unlinked (missing_ok) and the .mcap path is returned
ensure_output_files_ready_confirmed ==
  /\ pc = "ensure"
  /\ files.mcap \/ files.mkv
  /\ confirm' = "yes"
  /\ files' = [mkdir(files) EXCEPT !.mcap = FALSE, !.mkv = FALSE]
  /\ output_file' = "mcap"
  /\ pc' = "write_pid"
  /\ UNCHANGED <<idx, raised, prodVars, queueVars, loopVars, now, inputVars,
                 pipelineVars, tdFail, log, pid_file, configured,
                 hc_resources, unhealthy, hc_calls, stop_outcome, kill_calls, pid_text, other_pc>>

\* a declined overwrite that has unlinked the files before it asks
ensure_output_files_ready_declined_late ==
  /\ pc = "ensure"
  /\ files.mcap \/ files.mkv
  /\ confirm' = "no"
  /\ files' = [mkdir(files) EXCEPT !.mcap = FALSE, !.mkv = FALSE]
  /\ raised' = "abort"
  /\ pc' = "done"
  /\ UNCHANGED <<idx, prodVars, queueVars, loopVars, now, inputVars,
                 pipelineVars, tdFail, log, pid_file, output_file, configured,
                 hc_resources, unhealthy, hc_calls, stop_outcome, kill_calls, pid_text, other_pc>>

\* recorder.py:59-63: an output file exists and typer.confirm returns
\* False: typer.Abort leaves record() at line 320, before the pid file is
\* written and before the try statement
ensure_output_files_ready_declined ==
  /\ pc = "ensure"
  /\ files.mcap \/ files.mkv
  /\ confirm' = "no"
  /\ files' = mkdir(files)
  /\ raised' = "abort"
  /\ pc' = "done"
  /\ UNCHANGED <<idx, prodVars, queueVars, loopVars, now, inputVars,
                 pipelineVars, tdFail, log, pid_file, output_file, configured,
                 hc_resources, unhealthy, hc_calls, stop_outcome, kill_calls, pid_text, other_pc>>

\* recorder.py:321-324
write_pid ==
  /\ pc = "write_pid"
  /\ pid_file' = TRUE
  /\ pid_text' = "self"
  /\ pc' = "configure"
  /\ UNCHANGED <<idx, raised, prodVars, queueVars, loopVars, now, inputVars,
                 pipelineVars, commandRest, tdFail, log>>

\* recorder.py:326-337, 112-159: setup_resources instantiates and configures
\* the listeners and the recorder
configure_ok ==
  /\ pc = "configure"
  /\ configured' = "yes"
  /\ log' = Append(log, Call("configure", 1))
  /\ pc' = "start"
  /\ UNCHANGED <<idx, raised, prodVars, queueVars, loopVars, now, inputVars,
                 pipelineVars, tdFail, pid_file, files, confirm, output_file,
                 hc_resources, unhealthy, hc_calls, stop_outcome, kill_calls, pid_text, other_pc>>

\* a failed configuration that is logged and followed by the start loop
configure_raises_swallowed ==
  /\ pc = "configure"
  /\ configured' = "failed"
  /\ pc' = "start"
  /\ UNCHANGED <<idx, raised, prodVars, queueVars, loopVars, now, inputVars,
                 pipelineVars, tdFail, log, pid_file, files, confirm,
                 output_file, hc_resources, unhealthy, hc_calls, stop_outcome,
                 kill_calls, pid_text, other_pc>>

\* recorder.configure raises (the pipeline description cannot be built):
\* the exception leaves setup_resources before its start loop and record()
\* through its finally clause
configure_raises ==
  /\ pc = "configure"
  /\ configured' = "failed"
  /\ raised' = "configure"
  /\ pc' = "unlink"
  /\ UNCHANGED <<idx, prodVars, queueVars, loopVars, now, inputVars,
                 pipelineVars, tdFail, log, pid_file, files, confirm,
                 output_file, hc_resources, unhealthy, hc_calls, stop_outcome,
                 kill_calls, pid_text, other_pc>>

\* the names owa.ocap.recorder defines or imports (recorder.py:1-384)
recorder_names ==
  {"os", "time", "contextmanager", "Path", "Empty", "Queue", "Optional",
   "typer", "logger", "MediaRef", "tqdm", "Annotated", "OWAMcapWriter",
   "CALLABLES", "LISTENERS", "get_plugin_discovery", "TimeUnits",
   "check_for_update", "countdown_delay", "parse_additional_properties",
   "RecordingContext", "check_plugin", "check_resources_health",
   "ensure_output_files_ready", "_record_environment_metadata",
   "setup_resources", "_display_warnings_and_instructions",
   "_run_recording_loop", "record", "main"}

\* test_recorder.py:7 and 111-117: the stop command is looked up in
\* owa.ocap.recorder while a recording has its pid file on disk; the module
\* has no such name, the lookup raises and nothing else happens
stop_command ==
  /\ stop_outcome = "none"
  /\ pid_file
  /\ "stop" \notin recorder_names
  /\ stop_outcome' = "ImportError"
  /\ UNCHANGED <<sessionVars, pipelineVars, files, confirm, output_file,
                 configured, hc_resources, unhealthy, hc_calls, kill_calls, pid_text, other_pc>>

\* record() is entered with any state of the output path
InitSetup ==
  /\ pc = "ensure"
  /\ pid_file = FALSE
  /\ Fresh(0..1, {0, StopAfter}, {0, HealthInterval})
  /\ on_configure
  /\ NoFrame
  /\ files \in FileStates
  /\ confirm = "none"
  /\ output_file = "none"
  /\ configured = "no"
  /\ stop_outcome = "none"
  /\ kill_calls = <<>>
  /\ pid_text = "none"
  /\ other_pc = "idle"
  /\ NoHealthCall({<<>>})

\* record() until its loop would begin or it has ended
NextSetup ==
  \/ ensure_output_files_ready_free
  \/ ensure_output_files_ready_confirmed
  \/ ensure_output_files_ready_declined
  \/ write_pid
  \/ configure_ok
  \/ configure_raises
  \/ start_ok
  \/ start_raises
  \/ \E r \in Resources : producer_ends(r)
  \/ unlink
  \/ stop_command

SpecSetup == InitSetup /\ [][NextSetup]_vars

\* ===================================================================
\* The session with the recorder as its first producer
\* ===================================================================
\* resources[1] is the recorder (recorder.py:161-169): its thread runs
\* loop() of the pipeline runner, its is_alive() is that thread's, and the
\* stop() the teardown calls on it is the runner's stop().
Listeners == Resources \ {1}

\* the recorder's thread, started by start(), begins to run loop()
recorder_thread_begins ==
  /\ pstate[1] = "running"
  /\ start

\* loop() has returned or raised: the recorder's thread is no longer alive
recorder_thread_ends ==
  /\ rpc = "ended"
  /\ producer_ends(1)

\* recorder.py:182 for the recorder: stop() runs on the main thread after
\* the call was logged, once
recorder_stop_check ==
  /\ pc = "td_join"
  /\ cur = 1
  /\ stops = 0
  /\ stop_check

\* recorder.py:182-183: join() is called when stop() has returned
stop_returned == cur # 1 \/ stops > 0

recorder_join_returns == stop_returned /\ join_returns

\* recorder.py:183: the 5 s pass with the thread still inside loop(); a
\* thread whose loop() is through ends before they do
recorder_join_times_out ==
  /\ stop_returned
  /\ cur = 1 => rpc # "ended"
  /\ join_times_out

InitRecorder ==
  Setup({0}, {0}, {0, HealthInterval}) /\ on_configure /\ NoFrame /\ NoCommand /\ NoHealthCall({<<>>})

NextRecorder ==
  \/ start_ok
  \/ recorder_thread_begins
  \/ set_state_success
  \/ set_state_async
  \/ set_state_failure
  \/ pop_error
  \/ wait_async_done
  \/ wait_async_timeout
  \/ main_loop_run
  \/ dispatch
  \/ main_loop_returns
  \/ loop_finally
  \/ gst_async_done
  \/ gst_posts_eos
  \/ gst_posts_error
  \/ recorder_thread_ends
  \/ \E r \in Listeners : producer_ends(r)
  \/ \E r \in Listeners : enqueue_event_stamp(r, MaxEvents)
  \/ \E r \in Listeners : enqueue_event_put(r)
  \/ loop_init
  \/ health_check_fail
  \/ health_check_pass
  \/ begin_get
  \/ tick(HealthInterval)
  \/ get_item
  \/ get_empty
  \/ write_ok
  \/ write_raises
  \/ keyboard_interrupt
  \/ loop_left
  \/ close_writer
  \/ stop_ok
  \/ recorder_stop_check
  \/ stop_send
  \/ recorder_join_returns
  \/ recorder_join_times_out
  \/ alive_check
  \/ unlink

SpecRecorder == InitRecorder /\ [][NextRecorder]_vars

\* ===================================================================
\* A user interrupt outside the loop
\* ===================================================================
\* the statements of record() that are not inside the try of the loop
OutsideLoop ==
  {"ensure", "write_pid", "configure", "start", "loop_init", "exited",
   "close", "td_stop", "td_join", "td_alive", "unlink"}

\* an interrupt that the except clause of the teardown catches like any
\* other exception
propagate_caught_in_teardown(at) ==
  CASE at \in {"ensure", "write_pid", "unlink"} -> [pc |-> "done", raised |-> "KeyboardInterrupt"]
    [] at \in {"configure", "start"} -> [pc |-> "unlink", raised |-> "KeyboardInterrupt"]
    [] at \in {"loop_init", "close"} -> [pc |-> "td_stop", raised |-> "KeyboardInterrupt"]
    [] at = "exited" -> [pc |-> "close", raised |-> "KeyboardInterrupt"]
    [] at \in {"td_stop", "td_join", "td_alive"} -> [pc |-> at, raised |-> raised]

\* where a KeyboardInterrupt raised at a statement outside the loop takes
\* record(): before the try of record() (recorder.py:320-324) and inside
\* its finally (360-361) it leaves record() at once; inside the try and
\* before the try of setup_resources (326-337, 112-174) it goes to the
\* finally of record(); inside the with blocks (337-359) it goes through the
\* writer's exit and the finally of setup_resources; inside the teardown
\* loop it is not an Exception (186) and leaves setup_resources.
propagate(at) ==
  CASE at \in {"ensure", "write_pid", "unlink"} -> [pc |-> "done", raised |-> "KeyboardInterrupt"]
    [] at \in {"configure", "start"} -> [pc |-> "unlink", raised |-> "KeyboardInterrupt"]
    [] at \in {"loop_init", "close"} -> [pc |-> "td_stop", raised |-> "KeyboardInterrupt"]
    [] at = "exited" -> [pc |-> "close", raised |-> "KeyboardInterrupt"]
    [] at \in {"td_stop", "td_join", "td_alive"} -> [pc |-> "unlink", raised |-> "KeyboardInterrupt"]

\* the interrupt is delivered to the main thread outside the loop, once
interrupt_outside ==
  /\ pc \in OutsideLoop
  /\ \A i \in DOMAIN log : log[i] # Call("KeyboardInterrupt", 0)
  /\ log' = Append(log, Call("KeyboardInterrupt", 0))
  /\ pc' = propagate(pc).pc
  /\ raised' = propagate(pc).raised
  /\ idx' = IF propagate(pc).pc = "td_stop" /\ pc \in {"loop_init", "close"} THEN 1 ELSE idx
  /\ UNCHANGED <<prodVars, queueVars, loopVars, now, inputVars, pipelineVars,
                 commandVars, tdFail, pid_file>>

\* record() from its first statement to its end, without input events,
\* with an interrupt inside the loop or outside of it
NextInterrupt ==
  \/ ensure_output_files_ready_free
  \/ ensure_output_files_ready_confirmed
  \/ ensure_output_files_ready_declined
  \/ write_pid
  \/ configure_ok
  \/ configure_raises
  \/ NextQuiet
  \/ interrupt_outside

SpecInterrupt == InitSetup /\ [][NextInterrupt]_vars

\* ===================================================================
\* A second record() process on the same machine
\* ===================================================================
\* The pid file has one fixed path (recorder.py:322); another process that
\* runs record() writes its own process id to it ...
other_write_pid ==
  /\ other_pc = "idle"
  /\ pid_file' = TRUE
  /\ pid_text' = "other"
  /\ other_pc' = "recording"
  /\ UNCHANGED <<pc, idx, raised, prodVars, queueVars, loopVars, now, inputVars,
                 pipelineVars, tdFail, log, files, confirm, output_file,
                 configured, hc_resources, unhealthy, hc_calls, stop_outcome,
                 kill_calls>>

\* ... and unlinks the path in its finally clause (recorder.py:360-361)
other_unlink ==
  /\ other_pc = "recording"
  /\ pid_file' = FALSE
  /\ pid_text' = "none"
  /\ other_pc' = "done"
  /\ UNCHANGED <<pc, idx, raised, prodVars, queueVars, loopVars, now, inputVars,
                 pipelineVars, tdFail, log, files, confirm, output_file,
                 configured, hc_resources, unhealthy, hc_calls, stop_outcome,
                 kill_calls>>

\* record() from its first statement to its end, without input events,
\* while a second process starts and ends a session of its own
NextTwoSessions ==
  \/ ensure_output_files_ready_free
  \/ ensure_output_files_ready_confirmed
  \/ ensure_output_files_ready_declined
  \/ write_pid
  \/ configure_ok
  \/ configure_raises
  \/ NextQuiet
  \/ other_write_pid
  \/ other_unlink

SpecTwoSessions == InitSetup /\ [][NextTwoSessions]_vars

\* ====================================================================
\* Properties
\* ====================================================================
Called(op, r) == \E i \in DOMAIN log : log[i] = Call(op, r)
IsStart(c) == c.op = "start"
IsStop(c) == c.op = "stop"
Starts == SelectSeq(log, IsStart)
Stops == SelectSeq(log, IsStop)

\* the loop has ended (by a break, an interrupt or an error)
LoopOver == exitCause # "none"
\* the finally clause of setup_resources has run to its end
TeardownOver == pc \in {"unlink", "done"} /\ Called("close", 0)
\* the exception the loop left behind, the only one record() may end with
RaisedByLoop == IF exitCause = "writer" THEN "writer" ELSE "none"

\* C1 -- Teardown containment: whatever stop(), join() or the liveness
\* assertion did for some producers (tdFail), the error was logged and not
\* re-raised, stop() was called on every producer, and join() on every
\* producer whose own stop() returned; a producer whose teardown failed
\* alone therefore leaves stop() and join() called on every other one.
C1_TeardownContainment ==
  TeardownOver =>
    /\ raised = RaisedByLoop
    /\ \A r \in Resources : Called("stop", r)
    /\ \A r \in Resources : tdFail[r] # "stop" => Called("join", r)
    /\ \A p \in Resources :
         (tdFail[p] # "none" /\ \A q \in Resources \ {p} : tdFail[q] = "none")
           => \A q \in Resources \ {p} : Called("stop", q) /\ Called("join", q)

C1_Witness ==
  /\ pc = "done"
  /\ tdFail[NumResources] = "stop"
  /\ tdFail[1] = "none"
  /\ Called("join", 1)

\* C2 -- Teardown order: the stop() calls follow the exact reverse of the
\* order of the start() calls, and they come one producer at a time: join()
\* directly follows the stop() of the same producer, the liveness check
\* directly follows its join(), and nothing else lies between one
\* producer's calls and the stop() of the next.
C2_TeardownOrder ==
  /\ \A k \in DOMAIN Stops :
       /\ k <= Len(Starts)
       /\ Stops[k].r = Starts[Len(Starts) + 1 - k].r
  /\ \A k \in DOMAIN Starts : Starts[k].r = k
  /\ TeardownOver => Len(Stops) = NumResources
  /\ \A i \in DOMAIN log :
       /\ log[i].op = "join" => i > 1 /\ log[i - 1] = Call("stop", log[i].r)
       /\ log[i].op = "is_alive" => i > 1 /\ log[i - 1] = Call("join", log[i].r)
       /\ (log[i].op = "stop" /\ i > 1) =>
            \/ log[i - 1].op = "close"
            \/ log[i - 1].op \in {"stop", "join", "is_alive"} /\ log[i - 1].r > log[i].r

C2_Witness ==
  /\ pc = "done"
  /\ Len(Stops) = NumResources
  /\ \A r \in Resources : Called("is_alive", r)

\* C3 -- Start failure: when start() of some producer raised, no later
\* producer was started and, by the time the error reaches the caller, every
\* producer that had been started has had stop() and join() called.
C3_StartFailureTeardown ==
  (pc = "done" /\ raised = "start") =>
    /\ \A r \in Resources : r > idx => pstate[r] = "new"
    /\ \A r \in Resources :
         pstate[r] # "new" => Called("stop", r) /\ Called("join", r)

\* C4 (as claimed) -- once the loop has committed to shutdown nothing is put
\* on the queue any more, because every producer was stopped before the
\* loop ended.
C4_NoEnqueueAfterShutdown ==
  [][ /\ LoopOver => enq' = enq
      /\ (~LoopOver /\ LoopOver') => \A r \in Resources : Called("stop", r)
    ]_vars

\* C4 (amended) -- the producers are stopped only after the loop has ended:
\* stop() is called on no producer before the loop is over, and whatever is
\* put on the queue from then on is never taken off it (no final drain).
C4_StopAfterLoop ==
  [][ /\ (\E r \in Resources : Called("stop", r))' => LoopOver
      /\ LoopOver => (deq' = deq /\ Len(queue') >= Len(queue))
    ]_vars

C4_Witness ==
  /\ pc = "done"
  /\ exitCause = "autostop"
  /\ queue # <<>>
  /\ queue[1].publish_time = now
  /\ \A r \in Resources : Called("stop", r)

Range(q) == {q[i] : i \in DOMAIN q}
BagOfSeq(q) == [e \in Range(q) |-> Cardinality({i \in DOMAIN q : q[i] = e})]

\* C5 -- No loss, no duplication: whatever the interleaving of the
\* producers' puts with the consumer's gets, no entry is returned twice,
\* only entries that were put are returned, the queue holds exactly the
\* puts minus the gets, and whenever the queue is empty the multiset of
\* returned entries is the multiset of entries put.
C5_NoLossNoDuplication ==
  /\ \A i, j \in DOMAIN deq : i # j => deq[i] # deq[j]
  /\ Range(deq) \subseteq Range(enq)
  /\ Len(queue) = Len(enq) - Len(deq)
  /\ queue = <<>> => BagOfSeq(deq) = BagOfSeq(enq)

C5_Witness ==
  /\ queue = <<>>
  /\ Len(deq) = QueueEvents
  /\ \E i, j \in DOMAIN deq : deq[i].topic # deq[j].topic

\* C6 -- FIFO delivery: the k-th entry the consumer gets is the k-th entry
\* whose put completed, whichever producer thread and topic it came from.
C6_Fifo ==
  /\ Len(deq) <= Len(enq)
  /\ \A k \in DOMAIN deq : deq[k] = enq[k]

C6_Witness ==
  /\ Len(deq) = 2
  /\ deq[1].topic # deq[2].topic
  /\ deq[1].event > deq[2].event

\* C7 (as claimed) -- Health fail-fast: with the health check enabled, the
\* loop is over at the latest one health-check interval after the moment a
\* producer died under it, and once the teardown that follows the failed
\* check is through every producer reports is_alive() = False.
C7_FailFastWithinInterval ==
  health_check_interval > 0 =>
    /\ (InLoop /\ firstDeath # NoTime) => now <= firstDeath + health_check_interval
    /\ (TeardownOver /\ exitCause = "health") => \A r \in Resources : ~is_alive(r)

\* C7 (amended) -- the loop is over at the latest one health-check interval
\* plus one dequeue timeout after that moment, and once the teardown is
\* through every producer for which it logged no error reports
\* is_alive() = False.
C7_FailFastWithinIntervalPlusTimeout ==
  health_check_interval > 0 =>
    /\ (InLoop /\ firstDeath # NoTime) =>
         now <= firstDeath + health_check_interval + DequeueTimeout
    /\ (TeardownOver /\ exitCause = "health") =>
         \A r \in Resources : tdFail[r] = "none" => ~is_alive(r)

C7_Witness ==
  /\ pc = "exited"
  /\ exitCause = "health"
  /\ firstDeath # NoTime
  /\ now > firstDeath + health_check_interval

\* C8 -- Auto-stop bound: with stop_after = D > 0 the loop does not end by
\* auto-stop before t0 + D, and it is over at the latest at
\* t0 + D + the dequeue timeout, with an empty queue or not.
C8_AutoStopBound ==
  stop_after > 0 =>
    /\ (pc = "exited" /\ exitCause = "autostop") =>
         now >= recording_start_time + stop_after
    /\ InLoop => now <= recording_start_time + stop_after + DequeueTimeout

C8_Witness ==
  /\ pc = "exited"
  /\ exitCause = "autostop"
  /\ now > recording_start_time + stop_after
  /\ queue # <<>>

\* C9 -- Termination causes: the loop returns normally only in a step in
\* which the auto-stop time is reached, or a due health check finds a
\* producer that is not alive, or an interrupt arrives; an empty queue sends
\* it back to the top of the loop.
C9_TerminationCauses ==
  [][ /\ (InLoop /\ ~InLoop' /\ raised' = "none") =>
           \/ AutoStopReached
           \/ HealthCheckDue /\ check_resources_health(resources) # <<>>
           \/ ~interrupted /\ interrupted'
      /\ (pc = "get" /\ queue = <<>> /\ pc' # "get" /\ ~interrupted') => pc' = "top"
    ]_vars

C9_Witness ==
  /\ pc = "top"
  /\ now > recording_start_time
  /\ nextId = 0
  /\ health_check_interval > 0
  /\ check_resources_health(resources) # <<>>

\* the calls made since the writer was opened
OpenAt == CHOOSE i \in DOMAIN log : log[i].op = "open"
SinceOpen == SubSeq(log, OpenAt + 1, Len(log))
ShutdownCalls(q) == SubSeq(q, 2, Len(q) - 1)

\* C10 -- Single-path shutdown: whichever way the loop ended, what follows
\* is the same sequence: the writer is closed, then the producers are taken
\* in reverse order, stop() being called on each and join() after every
\* stop() that returned, then the process-id file is removed.
C10_SinglePathShutdown ==
  (pc = "done" /\ LoopOver) =>
    /\ exitCause \in {"autostop", "health", "interrupt", "writer"}
    /\ Len(SinceOpen) >= 2
    /\ SinceOpen[1] = Call("close", 0)
    /\ SinceOpen[Len(SinceOpen)] = Call("unlink", 0)
    /\ ~pid_file
    /\ SelectSeq(ShutdownCalls(SinceOpen), IsStop)
         = [k \in 1..NumResources |-> Call("stop", NumResources + 1 - k)]
    /\ \A k \in DOMAIN ShutdownCalls(SinceOpen) :
         ShutdownCalls(SinceOpen)[k].op \in {"stop", "join", "is_alive"}
    /\ \A r \in Resources : tdFail[r] # "stop" => Called("join", r)
    /\ \A i \in DOMAIN log : log[i].op = "join" => log[i - 1] = Call("stop", log[i].r)

C10_Witness ==
  /\ pc = "done"
  /\ exitCause = "writer"
  /\ Called("close", 0)
  /\ \A r \in Resources : Called("join", r)

\* C11 -- Writer failure: from the step in which write_message raises, the
\* event that failed is not written and nothing else is taken off the queue
\* or written; when record() is through, the writer error is what it raises,
\* stop() has been called on every producer and the process-id file is gone.
C11_WriterFailure ==
  [][ /\ exitCause' = "writer" => (written' = written /\ deq' = deq)
      /\ (exitCause' = "writer" /\ pc' = "done") =>
           /\ raised' = "writer"
           /\ \A r \in Resources : Called("stop", r)'
           /\ ~pid_file'
    ]_vars

C11_Witness ==
  /\ pc = "done"
  /\ raised = "writer"
  /\ Len(deq) = Len(written) + 1
  /\ ~pid_file
  /\ \E r \in Resources : tdFail[r] # "none"

OpsOf(name) == {i \in DOMAIN ops : ops[i].op = name}
\* _loop() has not given up on PLAYING: the thread is inside try_set_state
\* or at the run loop
InsideLoop(at) == at \in {"wait_async", "run_enter", "run"}

\* C13 -- Cleanup always runs: when loop() is through, by whichever path
\* _loop() ended (PLAYING failed, PLAYING timed out, EOS, ERROR), cleanup()
\* has run and the pipeline has been set to NULL; loop() raises exactly on
\* the first two paths.
C13_CleanupAlwaysRuns ==
  rpc = "ended" =>
    /\ exit_path \in {"failed", "timeout", "EOS", "ERROR"}
    /\ is_cleaned_up
    /\ pipeline_state = "NULL"
    /\ OpsOf("set_state_NULL") # {}
    /\ loop_raised <=> exit_path \in {"failed", "timeout"}

C13_Witness ==
  /\ rpc = "ended"
  /\ exit_path = "timeout"
  /\ loop_raised
  /\ pipeline_state = "NULL"
  /\ eos = "pending"

\* C14 -- cleanup() is idempotent: a call of cleanup() on a runner that is
\* already cleaned up calls nothing on the pipeline or the main loop and
\* leaves pipeline, main loop and flag as the first call left them.
C14_CleanupIdempotent ==
  [][ (cleanup_calls' # cleanup_calls /\ is_cleaned_up) =>
        /\ ops' = ops
        /\ pipeline_state' = pipeline_state /\ pipeline_state = "NULL"
        /\ main_loop_running' = main_loop_running /\ ~main_loop_running
        /\ is_cleaned_up'
        /\ rpc' = rpc /\ bus' = bus /\ loop_raised' = loop_raised
    ]_vars

C14_Witness ==
  /\ rpc = "ended"
  /\ cleanup_calls = MaxCleanups
  /\ Cardinality(OpsOf("set_state_NULL")) = 1
  /\ Cardinality(OpsOf("quit")) = 2

\* C15 -- stop() is idempotent: whatever the number of calls of stop(), at
\* most one end-of-stream event is sent, and a call of stop() made after an
\* end-of-stream event was sent or after cleanup changes nothing.
C15_StopIdempotent ==
  Cardinality(OpsOf("send_event_EOS")) <= 1

C17_BusNotifications ==
  [][ /\ (rpc = "run" /\ main_loop_running /\ bus # <<>> /\ bus' = Tail(bus)) =>
           (~main_loop_running' <=> Head(bus) \in {"EOS", "ERROR"})
      /\ exit_path' = "ERROR" => ~loop_raised'
      /\ (exit_path' = "ERROR" /\ rpc' = "ended") => is_cleaned_up'
    ]_vars

C17_Witness ==
  /\ rpc = "ended"
  /\ exit_path = "ERROR"
  /\ ~loop_raised
  /\ eos = "pending"
  /\ posted.other > 0
  /\ OpsOf("send_event_EOS") # {}

\* C18 -- Stop leads to termination: once stop() has passed its test, at
\* whatever position of the runner thread, the thread eventually ends with
\* cleanup() done, so that is_alive() is false.
C18_StopLeadsToTermination ==
  (stop_pc = "send" \/ stops > 0) ~> (~runner_is_alive /\ is_cleaned_up)

C18_Witness ==
  /\ rpc = "ended"
  /\ exit_path = "EOS"
  /\ \E k \in OpsOf("send_event_EOS") : ops[k].at = "set_state"

\* get_frame_time_ns has been applied to the frame at hand
MetadataReady == fpc = "idle" /\ frames > 0
running_time == sample.clock_time - sample.base_time

\* C19 -- Frame timestamp correction: for a presentation time other than
\* the sentinel, get_frame_time_ns returns latency = r - pts and
\* frame_time_ns = T - latency (pts = 1_000_000_000 and r = 1_050_000_000
\* give T - 50_000_000); for the sentinel it returns frame_time_ns = T and
\* latency = 0.
C19_FrameTimestampCorrection ==
  MetadataReady =>
    /\ sample.pts # CLOCK_TIME_NONE =>
         /\ metadata.latency = running_time - sample.pts
         /\ metadata.frame_time_ns = wall - metadata.latency
    /\ (sample.pts = 1000000000 /\ running_time = 1050000000) =>
         metadata.frame_time_ns = wall - 50000000
    /\ sample.pts = CLOCK_TIME_NONE =>
         /\ metadata.frame_time_ns = wall
         /\ metadata.latency = 0

C19_Witness ==
  /\ MetadataReady
  /\ frames = 2
  /\ sample.pts = CLOCK_TIME_NONE
  /\ metadata = [frame_time_ns |-> wall, latency |-> 0]
  /\ handed[1].pts_ns = 1000000000

\* C20 -- Corrected capture time in frame events: the event the probe hands
\* to its callback carries the wall clock the probe read minus the latency
\* the probe computed, and the event that reaches enqueue_event carries the
\* same capture time.
C20_CorrectedCaptureTime ==
  /\ fpc \in {"callback", "appsink"} =>
       screen_captured.utc_ns = probe.frame_time_ns - probe.latency
  /\ fpc = "appsink" => handed[Len(handed)].utc_ns = screen_captured.utc_ns

\* the names of the entries of s that are not alive, front to back
RECURSIVE NotAliveNames(_)
NotAliveNames(s) ==
  IF s = <<>> THEN <<>>
  ELSE (IF pstate[Head(s)] = "running" THEN <<>> ELSE <<Head(s)>>)
       \o NotAliveNames(Tail(s))

\* C21: a call of check_resources_health returns, in the order of the list
\* it was given, exactly the names of the entries whose is_alive() is false:
\* the empty list for an empty list and for a list of live producers, a
\* one-element list when exactly one entry is not alive; the call makes no
\* other call on a producer, changes no producer and its result depends on
\* nothing but the liveness at the time of the call.
C21_HealthCheckResult ==
  [][hc_calls' > hc_calls =>
       /\ unhealthy' = NotAliveNames(hc_resources)
       /\ (hc_resources = <<>> => unhealthy' = <<>>)
       /\ ((\A k \in DOMAIN hc_resources : is_alive(hc_resources[k]))
             => unhealthy' = <<>>)
       /\ (Cardinality({k \in DOMAIN hc_resources : ~is_alive(hc_resources[k])}) = 1
             => Len(unhealthy') = 1)
       /\ log' = log
       /\ pstate' = pstate]_vars

\* the second call on <<2, 1, 2>> names the dead producer 2 twice and the
\* live producer 1 not at all
C21_Witness ==
  /\ hc_calls = MaxHealthCalls
  /\ hc_resources = <<2, 1, 2>>
  /\ pstate[1] = "running"
  /\ unhealthy = <<2, 2>>

\* C22: when an output file exists at the target path and the operator
\* confirms the overwrite, ensure_output_files_ready returns the .mcap path
\* and afterwards neither the .mcap nor the .mkv exists.
C22_ConfirmedOverwrite ==
  [][(pc = "ensure" /\ (files.mcap \/ files.mkv) /\ confirm' = "yes") =>
       /\ ~files'.mcap
       /\ ~files'.mkv
       /\ output_file' = "mcap"
       /\ raised' = "none"
       /\ pc' = "write_pid"]_vars

\* the overwrite was confirmed (so a file existed), the path was returned
\* and record() has gone on to write its pid file
C22_Witness ==
  /\ confirm = "yes"
  /\ output_file = "mcap"
  /\ ~files.mcap
  /\ ~files.mkv
  /\ pid_file

\* C23: when an output file exists and the operator declines the
\* overwrite, ensure_output_files_ready raises the abort, returns no path,
\* and the files that exist are exactly those that existed before the call.
C23_DeclinedOverwrite ==
  [][(pc = "ensure" /\ (files.mcap \/ files.mkv) /\ confirm' = "no") =>
       /\ raised' = "abort"
       /\ files' = files
       /\ output_file' = "none"]_vars

\* the overwrite was declined with only the .mkv on disk, which is still
\* there, and the abort has been raised
C23_Witness ==
  /\ confirm = "no"
  /\ raised = "abort"
  /\ files.mkv
  /\ ~files.mcap

\* C24: when setup fails before any producer is started (the operator
\* declines the overwrite, or configuring the recorder raises), record()
\* ends with that error and start() has been called on no producer.
C24_SetupFailureStartsNothing ==
  (confirm = "no" \/ configured = "failed") =>
    /\ raised = (IF confirm = "no" THEN "abort" ELSE "configure")
    /\ pc \in {"unlink", "done"}
    /\ Starts = <<>>
    /\ \A r \in Resources : pstate[r] = "new"

\* record() has ended after the recorder's configuration raised
C24_Witness ==
  /\ configured = "failed"
  /\ pc = "done"
  /\ raised = "configure"

\* C27: the stop command reads the process id from the pid file, sends that
\* process the console interrupt signal, and the pid file no longer exists
\* once the command has run.
C27_StopCommand ==
  stop_outcome # "none" =>
    /\ kill_calls = <<[pid |-> "pid_file", sig |-> "CTRL_C_EVENT"]>>
    /\ ~pid_file

\* C28: start() is called on the producers one after the other in the order
\* of their declaration, the recorder first, and only after the recorder's
\* configuration has succeeded.
C28_StartOrder ==
  /\ \A k \in DOMAIN Starts : Starts[k].r = k
  /\ \A i \in DOMAIN log :
       log[i].op = "start" =>
         /\ configured = "yes"
         /\ \E j \in 1..(i - 1) : log[j] = Call("configure", 1)
  /\ \A r \in Resources : pstate[r] # "new" => \A q \in 1..r : Called("start", q)

\* every producer has been started, the recorder first
C28_Witness ==
  /\ pc = "loop_init"
  /\ Len(Starts) = NumResources
  /\ Starts[1].r = 1

\* C26: a producer that has built its tuple can always complete the put:
\* enqueue_event never waits for room in the queue, whatever the length of
\* the queue, whatever the other producers do and whether or not the
\* consumer is still taking entries.
C26_EnqueueNeverBlocks ==
  \A r \in Resources : ppc[r] = "stamped" => ENABLED enqueue_event_put(r)

\* record() has ended, the queue still holds an entry nobody will take, and
\* a producer is inside enqueue_event with its tuple built
C26_Witness ==
  /\ pc = "done"
  /\ queue # <<>>
  /\ \E r \in Resources : ppc[r] = "stamped"

\* C29: when the request for PLAYING fails synchronously, or completes
\* asynchronously and no completion notification arrives within the wait,
\* loop() raises and the run loop is never entered; the run loop is entered
\* only after a synchronous success or after the completion notification
\* was taken from the bus in time.
C29_PlayingRequestOutcomes ==
  [][/\ (rpc = "set_state" /\ pipeline_state' = "FAILED") => rpc' = "pop_error"
     /\ (rpc = "pop_error" /\ rpc' # rpc) => loop_raised' /\ rpc' = "finally"
     /\ (rpc = "wait_async" /\ rpc' # rpc /\ "ASYNC_DONE" \notin Range(bus))
          => loop_raised' /\ rpc' = "finally"
     /\ (rpc' = "run_enter" /\ rpc # "run_enter")
          => \/ rpc = "set_state" /\ pipeline_state' = "PLAYING"
             \/ rpc = "wait_async" /\ "ASYNC_DONE" \in Range(bus)
     /\ (rpc' = "run" /\ rpc # "run") => rpc = "run_enter" /\ ~loop_raised
     /\ (loop_raised' \/ exit_path' \in {"failed", "timeout"})
          => /\ loop_raised'
             /\ \A i \in DOMAIN ops' : ops'[i].op # "run"
             /\ ~main_loop_running']_vars

\* the thread has ended after an asynchronous request whose completion did
\* not arrive in time: loop() raised and there was no run
C29_Witness ==
  /\ rpc = "ended"
  /\ exit_path = "timeout"
  /\ loop_raised
  /\ OpsOf("run") = {}
  /\ OpsOf("set_state_PLAYING") # {}

\* C30: once cleanup() has brought the pipeline to NULL the runner stays
\* there: the flag stays set, the pipeline stays in NULL, the main loop stays
\* stopped, and no stop(), cleanup() or bus message that comes later makes
\* a call on the pipeline or the main loop.  (The only call that can still
\* follow is the send of a stop() that had passed its test before the
\* cleanup.)
C30_OneDirectionalLifecycle ==
  [][is_cleaned_up =>
       /\ is_cleaned_up'
       /\ pipeline_state = "NULL"
       /\ pipeline_state' = "NULL"
       /\ ~main_loop_running'
       /\ rpc' \in {"finally", "ended"}
       /\ (stop_pc = "idle" => stop_pc' = "idle" /\ ops' = ops)
       /\ (ops' # ops => stop_pc = "send" /\ ops' = Append(ops, Op("send_event_EOS")))]_vars

\* after the cleanup of loop(), two calls of stop() and one of cleanup()
\* have returned and none of them has touched the pipeline: the last call
\* on it is the set_state(NULL) of the first cleanup
C30_Witness ==
  /\ is_cleaned_up
  /\ rpc = "ended"
  /\ stops = MaxStops
  /\ cleanup_calls = MaxCleanups
  /\ OpsOf("send_event_EOS") = {}
  /\ Cardinality(OpsOf("set_state_NULL")) = 1
  /\ ops[Len(ops)].op = "set_state_NULL"

\* the loop ended by a failed health check, a writer error or an interrupt
MidRecordingFailure == exitCause \in {"health", "writer", "interrupt"}

C31_HealthCheckSchedule ==
  [][/\ (exitCause' = "health" \/ last_health_check' # last_health_check) /\ pc = "top"
          => /\ health_check_interval > 0
             /\ now - last_health_check >= health_check_interval
     /\ health_check_interval = 0
          => /\ exitCause' # "health"
             /\ pc = "top" => last_health_check' = last_health_check
     /\ exitCause' = "health" => pc = "top" \/ exitCause = "health"]_vars

\* with the check disabled a producer died while the loop ran, the loop
\* went on for as long as the clock goes and was ended by the interrupt
C31_Witness ==
  /\ health_check_interval = 0
  /\ stop_after = 0
  /\ firstDeath # NoTime
  /\ now = MaxTime
  /\ now > firstDeath + DequeueTimeout
  /\ exitCause = "interrupt"

\* what was written is what was dequeued, entry by entry, and was enqueued
WrittenAsDequeued ==
  /\ Len(written) <= Len(deq)
  /\ \A k \in DOMAIN written :
       /\ written[k] = deq[k]
       /\ written[k] \in Range(enq)
       /\ written[k].publish_time <= now

\* the entry dequeued last and not written is the one the loop holds
LastHeld == Len(deq) = Len(written) + 1 /\ item = deq[Len(deq)]

\* C32 as stated: every entry the loop dequeues is passed to the writer
\* exactly once, with the topic, payload and publish_time it was enqueued
\* with, and the writer is called with nothing else: the entries written
\* are the entries dequeued, except for the one that is on its way to the
\* writer or whose write raised.
C32_ExactlyOnceForwarding ==
  /\ WrittenAsDequeued
  /\ \/ Len(deq) = Len(written)
     \/ LastHeld /\ pc = "write"
     \/ Len(deq) = Len(written) + 1 /\ exitCause = "writer"

\* C32 amended: every entry the loop dequeues is passed to the writer at
\* most once, unchanged, and exactly once unless an interrupt ends the
\* loop between the return of get() and the call of write_message; the
\* entry dequeued last is then dropped.
C32_AtMostOnceForwarding ==
  /\ WrittenAsDequeued
  /\ \/ Len(deq) = Len(written)
     \/ LastHeld /\ pc = "write"
     \/ Len(deq) = Len(written) + 1 /\ exitCause \in {"writer", "interrupt"}

\* an entry stamped at one instant was written at a later one, with the
\* publish_time of its enqueue
C32_Witness ==
  /\ Len(written) = 1
  /\ written[1] = enq[1]
  /\ written[1].publish_time < now
  /\ pc = "top"

\* C34: ensure_output_files_ready asks the operator if and only if the
\* .mcap or the .mkv of the target exists; when neither exists it asks
\* nothing, removes nothing and returns the path with the .mcap suffix.
C34_PromptOnlyWhenNeeded ==
  [][pc = "ensure" /\ pc' # "ensure" =>
       /\ confirm' # "none" <=> (files.mcap \/ files.mkv)
       /\ ~(files.mcap \/ files.mkv) =>
            /\ files' = [files EXCEPT !.dir = TRUE]
            /\ output_file' = "mcap"
            /\ raised' = "none"
            /\ pc' = "write_pid"]_vars

\* the function has returned the path for a target in a directory that did
\* not exist: nothing was asked, the directory was made, no file is there
C34_Witness ==
  /\ pc = "configure"
  /\ confirm = "none"
  /\ output_file = "mcap"
  /\ files = [dir |-> TRUE, mcap |-> FALSE, mkv |-> FALSE]

\* C35: whatever the interleaving of the producer threads, the publish_time
\* of the messages passed to the writer never decreases in the order in
\* which they are written.
C35_TimeOrderedLog ==
  \A j, k \in DOMAIN written :
    j < k => written[j].publish_time <= written[k].publish_time

\* C36: however stop() on the caller's thread interleaves with cleanup() on
\* the runner thread, stop() returns without waiting for the run loop and
\* no end-of-stream event is sent to a pipeline that cleanup() has already
\* set to NULL.
C36_ThreadSafeStop ==
  /\ stop_pc = "send" => ENABLED stop_send
  /\ \A k \in OpsOf("send_event_EOS") :
       \A i \in OpsOf("set_state_NULL") : k < i

\* C37: once the loop has ended, for whatever reason, write_message is not
\* called again and nothing more is taken from the queue: the entries that
\* are in the queue stay there and those that running producers enqueue
\* afterwards are added behind them, none is written.
C37_NothingWrittenAfterLoop ==
  [][LoopOver =>
       /\ written' = written
       /\ deq' = deq
       /\ \/ queue' = queue
          \/ \E r \in Resources : queue' = Append(queue, held[r])]_vars

\* record() has ended after a loop that wrote an entry; another entry is
\* left in the queue and a producer is still running
C37_Witness ==
  /\ pc = "done"
  /\ written # <<>>
  /\ queue # <<>>
  /\ \E r \in Resources : pstate[r] = "running"

\* C39: when the pipeline has ended on its own during the recording (its
\* run loop was quit, loop() is through and the recorder's thread is no
\* longer alive) and health_check_interval > 0, the next health check that
\* is made (the next iteration in which one is due, unless an interrupt
\* ends the loop first) ends the loop with a health failure; in the teardown that
\* follows, stop() on the recorder sends no end-of-stream event and the
\* recorder's not-alive check passes.
C39_PipelineDeathDetected ==
  [][/\ (pc = "top" /\ pstate[1] = "dead" /\ HealthCheckDue /\ pc' # "top"
           /\ ~interrupted')
          => exitCause' = "health" /\ pc' = "exited"
     /\ (pstate[1] = "dead" /\ stop_pc = "idle" /\ OpsOf("send_event_EOS") = {})
          => /\ stop_pc' = "idle"
             /\ \A i \in DOMAIN ops' : ops'[i].op # "send_event_EOS"
     /\ (pstate[1] = "dead" /\ InLoop) => rpc = "ended" /\ is_cleaned_up /\ stops = 0
     /\ (pstate[1] = "dead" /\ pc = "td_alive" /\ cur = 1 /\ pc' # pc)
          => tdFail'[1] = "none"]_vars

\* the pipeline posted an ERROR, the health check ended the loop, the
\* teardown's stop() on the recorder has returned without sending and its
\* not-alive check has passed
C39_Witness ==
  /\ pc = "done"
  /\ exitCause = "health"
  /\ exit_path = "ERROR"
  /\ stops = 1
  /\ OpsOf("send_event_EOS") = {}
  /\ Called("is_alive", 1)
  /\ tdFail[1] = "none"

\* C33: an interrupt that arrives while the loop runs is caught in the
\* loop, and record() then goes through the whole shutdown and returns
\* without raising; an interrupt that arrives outside the loop (setup,
\* delayed start, teardown) is caught nowhere: record() does not go on with
\* the statement it was at and ends by raising it.
C33_InterruptScope ==
  /\ Called("KeyboardInterrupt", 0) =>
       /\ raised = "KeyboardInterrupt"
       /\ pc \in {"close", "td_stop", "td_join", "td_alive", "unlink", "done"}
  /\ (interrupted /\ ~Called("KeyboardInterrupt", 0)) =>
       /\ exitCause = "interrupt"
       /\ raised = "none"
       /\ pc = "done" =>
            /\ Called("close", 0)
            /\ Len(Stops) = NumResources
            /\ ~pid_file

\* the interrupt arrived in the teardown after the first producer was
\* stopped: record() has ended raising it, the other producer was never
\* stopped
C33_Witness ==
  /\ pc = "done"
  /\ raised = "KeyboardInterrupt"
  /\ exitCause = "autostop"
  /\ Len(Stops) = 1
  /\ ~pid_file

\* C38: from the moment a session has written the pid file until its
\* teardown is complete, the file exists and holds that session's process
\* id, also when a second session starts or ends in the meantime.
C38_PidFileValid ==
  pc \notin {"ensure", "write_pid", "unlink", "done"} =>
    /\ pid_file
    /\ pid_text = "self"
=============================================================================
